---- MODULE Spec2Model ----
(***************************************************************************)
(* A model of ChatworkClient (src/main.ts): construction with the token    *)
(* fallback chain, the public operations (validation, in-place             *)
(* normalisation of the caller's parameter object, request building, the   *)
(* call of the transport, the classification of the response) and the     *)
(* helper functions they use.                                              *)
(*                                                                         *)
(* JavaScript values are tagged records.  Japanese message texts of the    *)
(* source are written in English: the resource labels of ChatworkError    *)
(* (messeji, tasuku, fairu, kontakuto, risosu) are "message", "task",      *)
(* "file", "contact", "resource".                                          *)
(***************************************************************************)
EXTENDS Integers, Sequences, FiniteSets, TLC

VARIABLES
    env,        \* the CW_API_TOKEN environment variable (a JS value)
    dotenv,     \* the CW_API_TOKEN entry of the .env file (a JS value)
    tz,         \* the local time zone, minutes east of UTC
    client,     \* the constructed client, or NoClient
    created,    \* "no", "ok" or "failed": the outcome of the last create
    createArg,  \* the argument of the last create, as the caller passed it
    consulted,  \* the token sources the last create read after options.token
    heap,       \* the caller's parameter objects, by reference
    calls       \* the calls of public operations, by slot

vars == <<env, dotenv, tz, client, created, createArg, consulted, heap, calls>>

----------------------------------------------------------------------------
(* Bounds of the model. *)

\* the longest id array passed to a list-valued field
MaxIds == 2

----------------------------------------------------------------------------
(* JavaScript values. *)

Undefined == [t |-> "undefined"]
Null == [t |-> "null"]
Str(s) == [t |-> "string", s |-> s]
Num(n) == [t |-> "number", n |-> n]
NaN == [t |-> "number", nan |-> TRUE]
Bool(b) == [t |-> "boolean", b |-> b]
Arr(a) == [t |-> "array", a |-> a]
DateOf(ms) == [t |-> "date", ms |-> ms]
InvalidDate == [t |-> "date", invalid |-> TRUE]
BlobOf(id) == [t |-> "blob", id |-> id]
BytesOf(id) == [t |-> "uint8array", id |-> id]

IsStr(v) == v.t = "string"
IsNum(v) == v.t = "number"
IsNaN(v) == v.t = "number" /\ "nan" \in DOMAIN v
IsArr(v) == v.t = "array"
IsDate(v) == v.t = "date"
IsValidDate(v) == v.t = "date" /\ "ms" \in DOMAIN v

\* ToBoolean: the test of `!x` and of `x ? a : b`
Truthy(v) ==
    CASE v.t = "undefined" -> FALSE
      [] v.t = "null" -> FALSE
      [] v.t = "string" -> v.s # ""
      [] v.t = "number" -> ~IsNaN(v) /\ v.n # 0
      [] v.t = "boolean" -> v.b
      [] OTHER -> TRUE

RECURSIVE JoinStrings(_, _)
\* Array.prototype.join on an array of strings
JoinStrings(ss, sep) ==
    IF Len(ss) = 0 THEN ""
    ELSE IF Len(ss) = 1 THEN ss[1]
    ELSE ss[1] \o sep \o JoinStrings(Tail(ss), sep)

\* String(v) of a primitive
PrimToString(v) ==
    CASE v.t = "undefined" -> "undefined"
      [] v.t = "null" -> "null"
      [] v.t = "string" -> v.s
      [] v.t = "number" -> IF IsNaN(v) THEN "NaN" ELSE ToString(v.n)
      [] v.t = "boolean" -> IF v.b THEN "true" ELSE "false"
      [] v.t = "date" -> IF IsValidDate(v) THEN "Date " \o ToString(v.ms) ELSE "Invalid Date"
      [] OTHER -> "[object]"

\* an element of a joined array: null and undefined give the empty string
JoinElement(v) == IF v.t \in {"undefined", "null"} THEN "" ELSE PrimToString(v)

\* a join that puts a space after each comma
JoinCommaSpace(v) == JoinStrings([i \in 1..Len(v.a) |-> JoinElement(v.a[i])], ", ")

\* Array.prototype.join(",")
JoinComma(v) == JoinStrings([i \in 1..Len(v.a) |-> JoinElement(v.a[i])], ",")

\* String(v)
ToStr(v) == IF IsArr(v) THEN JoinComma(v) ELSE PrimToString(v)

----------------------------------------------------------------------------
(* JavaScript strings. *)

UpperAlpha == "ABCDEFGHIJKLMNOPQRSTUVWXYZ"
LowerAlpha == "abcdefghijklmnopqrstuvwxyz"
CharAt(s, i) == SubSeq(s, i, i)
IsSpace(c) == c \in {" ", "\t", "\n"}

LowerChar(c) ==
    IF \E i \in 1..26 : CharAt(UpperAlpha, i) = c
    THEN CharAt(LowerAlpha, CHOOSE i \in 1..26 : CharAt(UpperAlpha, i) = c)
    ELSE c

RECURSIVE ToLowerCase(_)
\* String.prototype.toLowerCase
ToLowerCase(s) ==
    IF s = "" THEN "" ELSE LowerChar(CharAt(s, 1)) \o ToLowerCase(SubSeq(s, 2, Len(s)))

RECURSIVE TrimStart(_)
TrimStart(s) ==
    IF s # "" /\ IsSpace(CharAt(s, 1)) THEN TrimStart(SubSeq(s, 2, Len(s))) ELSE s

RECURSIVE TrimEnd(_)
TrimEnd(s) ==
    IF s # "" /\ IsSpace(CharAt(s, Len(s))) THEN TrimEnd(SubSeq(s, 1, Len(s) - 1)) ELSE s

\* String.prototype.trim
Trim(s) == TrimEnd(TrimStart(s))

----------------------------------------------------------------------------
(* JavaScript objects: the own properties in insertion order, as pairs. *)

EmptyObject == << >>
Has(o, k) == \E i \in 1..Len(o) : o[i][1] = k
IndexOf(o, k) == CHOOSE i \in 1..Len(o) : o[i][1] = k
\* o.k
Get(o, k) == IF Has(o, k) THEN o[IndexOf(o, k)][2] ELSE Undefined
\* o.k = v
Set(o, k, v) ==
    IF Has(o, k) THEN [o EXCEPT ![IndexOf(o, k)] = <<k, v>>] ELSE Append(o, <<k, v>>)
\* delete o.k
Delete(o, k) == SelectSeq(o, LAMBDA e : e[1] # k)
\* Object.entries(o)
Entries(o) == o

----------------------------------------------------------------------------
(* Dates.  A Date holds a time value in milliseconds, or is invalid. *)

\* the divisor of `formData.limit.getTime() / 1000`
MsPerSecond == 1000

\* Date.parse on the date strings the model passes; any other string does
\* not parse
DateParse(s) ==
    CASE s = "1970-01-02" -> DateOf(86400000)
      [] s = "1970-01-02T03:04:05Z" -> DateOf(97445000)
      [] s = "1970-01-01T00:00:09Z" -> DateOf(9000)
      [] OTHER -> InvalidDate

\* new Date(v) for a string or a number v
NewDate(v) ==
    IF IsStr(v) THEN DateParse(v.s)
    ELSE IF IsNaN(v) THEN InvalidDate
    ELSE DateOf(v.n)

\* the local time of a valid Date, in milliseconds
LocalTime(d, zone) == d.ms + zone * 60000
\* Date.prototype.getHours, getMinutes, getSeconds (NaN for an invalid Date)
GetHours(d, zone) ==
    IF IsValidDate(d) THEN Num((LocalTime(d, zone) \div 3600000) % 24) ELSE NaN
GetMinutes(d, zone) ==
    IF IsValidDate(d) THEN Num((LocalTime(d, zone) \div 60000) % 60) ELSE NaN
GetSeconds(d, zone) ==
    IF IsValidDate(d) THEN Num((LocalTime(d, zone) \div 1000) % 60) ELSE NaN
\* Date.prototype.getTime
GetTime(d) == IF IsValidDate(d) THEN Num(d.ms) ELSE NaN
\* Math.floor(d.getTime() / 1000).toString()
EpochSecondsString(d) ==
    IF IsValidDate(d) THEN ToString(d.ms \div MsPerSecond) ELSE "NaN"

----------------------------------------------------------------------------
(* Validators and encoders of src/main.ts. *)

\* isValidTaskStatus: /^(open|done)$/ on a string, false on a falsy value
isValidTaskStatus(taskStatus) ==
    IF ~Truthy(taskStatus) THEN FALSE ELSE ToStr(taskStatus) \in {"open", "done"}

\* isValidLimitType: /^(none|date|time)$/
isValidLimitType(taskLimitType) ==
    IF ~Truthy(taskLimitType) THEN FALSE
    ELSE ToStr(taskLimitType) \in {"none", "date", "time"}

\* entryValuesAsStrings: [key, Array.isArray(val) ? val.join(",") : String(val)]
entryValuesAsStrings(e) == <<e[1], IF IsArr(e[2]) THEN JoinComma(e[2]) ELSE PrimToString(e[2])>>

\* new URLSearchParams(Object.entries(formData).map(entryValuesAsStrings)):
\* the name/value pairs in order
FormParams(formData) == [i \in 1..Len(formData) |-> entryValuesAsStrings(Entries(formData)[i])]

\* URLSearchParams.prototype.toString for names and values made of
\* characters that need no percent-encoding
SerializeForm(pairs) ==
    JoinStrings([i \in 1..Len(pairs) |-> pairs[i][1] \o "=" \o pairs[i][2]], "&")

\* a queryStringFromParamsObject that skips every falsy value
queryStringOfTruthy(queryParams, given) ==
    IF ~given THEN ""
    ELSE LET defined == SelectSeq(Entries(queryParams), LAMBDA e : Truthy(e[2]))
             definedParams == [i \in 1..Len(defined) |->
                                  defined[i][1] \o "=" \o ToStr(defined[i][2])]
         IN IF Len(definedParams) > 0 THEN "?" \o JoinStrings(definedParams, "&") ELSE ""

\* queryStringFromParamsObject; the argument is an object or undefined
queryStringFromParamsObject(queryParams, given) ==
    IF ~given THEN ""
    ELSE LET defined == SelectSeq(Entries(queryParams),
                                  LAMBDA e : e[2] # Undefined /\ e[2] # Null)
             definedParams == [i \in 1..Len(defined) |->
                                  defined[i][1] \o "=" \o ToStr(defined[i][2])]
         IN IF Len(definedParams) > 0 THEN "?" \o JoinStrings(definedParams, "&") ELSE ""

----------------------------------------------------------------------------
(* Errors. *)

NoError == [cls |-> "none"]

MissingParameterError(missingParam) ==
    [cls |-> "MissingParameterError", name |-> "Error",
     message |-> missingParam \o " is a required parameter."]

InvalidParameterError(invalidParam, paramVal, expectedParamVal) ==
    [cls |-> "InvalidParameterError", name |-> "Error",
     message |-> invalidParam \o " is " \o paramVal \o " but should be " \o expectedParamVal \o "."]

\* a TypeError thrown by the runtime (a property read of undefined, a call
\* of a value that is no function)
TypeError(what) == [cls |-> "TypeError", name |-> "TypeError", message |-> what]

\* the rejection of the transport itself (a network failure)
NetworkError == [cls |-> "TransportError", name |-> "TypeError", message |-> "fetch failed"]

\* the rejection of res.json() on a body that is no JSON
JsonSyntaxError == [cls |-> "SyntaxError", name |-> "SyntaxError", message |-> "Unexpected end of JSON input"]

UnknownChatworkErrorName(statusCode) == "UnknownChatworkError " \o ToString(statusCode)

\* a classifier that has no case for 429 and no default label
ChatworkErrorFewerCases(statusCode, resourceType) ==
    CASE statusCode = 400 ->
           [cls |-> "ChatworkError", name |-> "IncorrectParametersError",
            message |-> "request or access token parameters are missing or invalid"]
      [] statusCode = 401 ->
           [cls |-> "ChatworkError", name |-> "UnauthorizedError",
            message |-> "authentication failed"]
      [] statusCode = 403 ->
           [cls |-> "ChatworkError", name |-> "ForbiddenError",
            message |-> "the access token lacks the scope"]
      [] statusCode = 404 ->
           [cls |-> "ChatworkError", name |-> "NotFoundError",
            message |-> PrimToString(resourceType) \o " does not exist"]
      [] OTHER ->
           [cls |-> "ChatworkError", name |-> UnknownChatworkErrorName(statusCode),
            message |-> "unknown error"]

\* new ChatworkError(statusCode, resourceType); resourceType is a label or
\* undefined, and undefined takes the default label
ChatworkError(statusCode, resourceType) ==
    LET label == IF resourceType = Undefined THEN "resource" ELSE resourceType.s
    IN CASE statusCode = 400 ->
              [cls |-> "ChatworkError", name |-> "IncorrectParametersError",
               message |-> "request or access token parameters are missing or invalid"]
         [] statusCode = 401 ->
              [cls |-> "ChatworkError", name |-> "UnauthorizedError",
               message |-> "authentication failed"]
         [] statusCode = 403 ->
              [cls |-> "ChatworkError", name |-> "ForbiddenError",
               message |-> "the access token lacks the scope"]
         [] statusCode = 404 ->
              [cls |-> "ChatworkError", name |-> "NotFoundError",
               message |-> label \o " does not exist"]
         [] statusCode = 429 ->
              [cls |-> "ChatworkError", name |-> "RateLimitError",
               message |-> "API call quota exceeded"]
         [] OTHER ->
              [cls |-> "ChatworkError", name |-> UnknownChatworkErrorName(statusCode),
               message |-> "unknown error"]

----------------------------------------------------------------------------
(* Construction: ChatworkClient.create and the constructor. *)

NoClient == [kind |-> "none"]
FunctionOf(f) == [t |-> "function", f |-> f]
\* the platform's built-in fetch
BuiltinFetch == FunctionOf("fetch")
IsFunction(v) == v.t = "function"

\* the default value of create's parameter
DefaultOptions == << <<"token", Str("")>>, <<"fetchImpl", BuiltinFetch>> >>

\* the private constructor
NewChatworkClient(options) ==
    LET token == Get(options, "token")
        DefaultHeaders == << <<"accept", "application/json">>,
                             <<"x-chatworktoken", ToStr(token)>> >>
    IN [kind |-> "client",
        token |-> token,
        fetch |-> Get(options, "fetchImpl"),
        DefaultHeaders |-> DefaultHeaders,
        FormDataHeaders |-> Set(DefaultHeaders, "content-type",
                                "application/x-www-form-urlencoded")]

\* a create that reads the environment before it looks at options.token
CreateClientEnvFirst(options, given, envVal, fileVal) ==
    LET opts == IF given THEN options ELSE DefaultOptions
    IN IF Truthy(envVal)
       THEN [ok |-> TRUE, read |-> {"env"},
             client |-> NewChatworkClient(Set(opts, "token", envVal))]
       ELSE IF Truthy(Get(opts, "token"))
       THEN [ok |-> TRUE, read |-> {"env"}, client |-> NewChatworkClient(opts)]
       ELSE IF Truthy(fileVal)
       THEN [ok |-> TRUE, read |-> {"env", "file"},
             client |-> NewChatworkClient(Set(opts, "token", fileVal))]
       ELSE [ok |-> FALSE, read |-> {"env", "file"}, client |-> NoClient]

\* ChatworkClient.create(options): options is the argument (given) or the
\* default; envVal is what Deno.env.get returns and fileVal what the .env
\* file holds.  The result names the sources read and the client, or fails.
CreateClient(options, given, envVal, fileVal) ==
    LET opts == IF given THEN options ELSE DefaultOptions
    IN IF Truthy(Get(opts, "token"))
       THEN [ok |-> TRUE, read |-> {}, client |-> NewChatworkClient(opts)]
       ELSE LET readFile == ~Truthy(envVal)
                envToken == IF readFile THEN fileVal ELSE envVal
                read == IF readFile THEN {"env", "file"} ELSE {"env"}
            IN IF ~Truthy(envToken)
               THEN [ok |-> FALSE, read |-> read, client |-> NoClient]
               ELSE [ok |-> TRUE, read |-> read,
                     client |-> NewChatworkClient(Set(opts, "token", envToken))]

----------------------------------------------------------------------------
(* The public operations: their parameters, paths and requests. *)

apiV2Endpoint == "https://api.chatwork.com/v2"

Ops ==
    {"getMe", "getMyStatus", "getMyTasks", "getContacts", "getRooms", "postRooms",
     "getRoom", "putRoom", "deleteRooms", "getRoomMembers", "putRoomMembers",
     "getRoomMessages", "postRoomMessage", "putRoomMessagesRead",
     "putRoomMessagesUnread", "getRoomMessage", "putRoomMessage",
     "deleteRoomMessage", "getRoomTasks", "postRoomTasks", "getRoomTask",
     "putRoomTaskStatus", "getRoomFiles", "postRoomFiles", "getRoomFile",
     "getRoomLink", "postRoomLink", "putRoomLink", "deleteRoomLink",
     "getIncomingRequests", "putIncomingRequests", "deleteIncomingRequest"}

\* the path parameters of an operation, in the order it checks them
PathParams(op) ==
    CASE op \in {"getRoomMessage", "putRoomMessage", "deleteRoomMessage"} ->
            <<"roomId", "messageId">>
      [] op \in {"getRoomTask", "putRoomTaskStatus"} -> <<"roomId", "taskId">>
      [] op = "getRoomFile" -> <<"roomId", "fileId">>
      [] op \in {"putIncomingRequests", "deleteIncomingRequest"} -> <<"requestId">>
      [] op \in {"getMe", "getMyStatus", "getMyTasks", "getContacts", "getRooms",
                 "postRooms", "getIncomingRequests"} -> << >>
      [] OTHER -> <<"roomId">>

\* the name of an operation's parameter object, or "none"
ParamObject(op) ==
    CASE op \in {"getMyTasks", "getRoomMessages", "getRoomTasks", "getRoomFiles",
                 "getRoomFile"} -> "queryParams"
      [] op \in {"postRooms", "putRoom", "deleteRooms", "putRoomMembers",
                 "postRoomMessage", "putRoomMessagesRead", "putRoomMessagesUnread",
                 "putRoomMessage", "postRoomTasks", "putRoomTaskStatus",
                 "postRoomFiles", "postRoomLink", "putRoomLink"} -> "formData"
      [] OTHER -> "none"

\* the method of the request; "get" is the transport's default, taken when
\* the operation passes none
Method(op) ==
    CASE op \in {"postRooms", "postRoomMessage", "postRoomTasks", "postRoomFiles",
                 "postRoomLink"} -> "post"
      [] op \in {"putRoom", "putRoomMembers", "putRoomMessagesRead",
                 "putRoomMessagesUnread", "putRoomMessage", "putRoomTaskStatus",
                 "putRoomLink", "putIncomingRequests"} -> "put"
      [] op \in {"deleteRooms", "deleteRoomMessage", "deleteRoomLink",
                 "deleteIncomingRequest"} -> "delete"
      [] OTHER -> "get"

\* whether the request carries this.#FormDataHeaders (else #DefaultHeaders)
UsesFormDataHeaders(op) == ParamObject(op) = "formData"

\* a table that gives postRoomMessage the label of a message
ResourceTypeOfPath(op) ==
    CASE op \in {"postRoomMessage", "putRoomMessagesRead", "putRoomMessagesUnread",
                 "getRoomMessage", "putRoomMessage", "deleteRoomMessage"} -> Str("message")
      [] op \in {"getRoomTask", "putRoomTaskStatus"} -> Str("task")
      [] op = "getRoomFile" -> Str("file")
      [] op \in {"putIncomingRequests", "deleteIncomingRequest"} -> Str("contact")
      [] OTHER -> Undefined

\* the resource type the operation passes to ChatworkError, or undefined
ResourceType(op) ==
    CASE op \in {"putRoomMessagesRead", "putRoomMessagesUnread", "getRoomMessage",
                 "putRoomMessage", "deleteRoomMessage"} -> Str("message")
      [] op \in {"getRoomTask", "putRoomTaskStatus"} -> Str("task")
      [] op = "getRoomFile" -> Str("file")
      [] op \in {"putIncomingRequests", "deleteIncomingRequest"} -> Str("contact")
      [] OTHER -> Undefined

\* whether the operation returns `await res.json()` (else nothing)
ReturnsJson(op) == op \notin {"deleteRooms", "deleteIncomingRequest"}

\* the path of the request, after the endpoint and before the query string
Path(op, ids) ==
    LET room == "/rooms/" \o ToStr(ids[1])
    IN CASE op = "getMe" -> "/me"
         [] op = "getMyStatus" -> "/my/status"
         [] op = "getMyTasks" -> "/my/tasks"
         [] op = "getContacts" -> "/contacts"
         [] op \in {"getRooms", "postRooms"} -> "/rooms"
         [] op \in {"getRoom", "putRoom", "deleteRooms"} -> room
         [] op \in {"getRoomMembers", "putRoomMembers"} -> room \o "/members"
         [] op \in {"getRoomMessages", "postRoomMessage"} -> room \o "/messages"
         [] op = "putRoomMessagesRead" -> room \o "/messages/read"
         [] op = "putRoomMessagesUnread" -> room \o "/messages/unread"
         [] op \in {"getRoomMessage", "putRoomMessage", "deleteRoomMessage"} ->
               room \o "/messages/" \o ToStr(ids[2])
         [] op \in {"getRoomTasks", "postRoomTasks"} -> room \o "/tasks"
         [] op = "getRoomTask" -> room \o "/tasks/" \o ToStr(ids[2])
         [] op = "putRoomTaskStatus" -> room \o "/tasks/" \o ToStr(ids[2]) \o "/status"
         [] op \in {"getRoomFiles", "postRoomFiles"} -> room \o "/files"
         [] op = "getRoomFile" -> room \o "/files/" \o ToStr(ids[2])
         [] op \in {"getRoomLink", "postRoomLink", "putRoomLink", "deleteRoomLink"} ->
               room \o "/link"
         [] op = "getIncomingRequests" -> "/incoming_requests"
         [] op \in {"putIncomingRequests", "deleteIncomingRequest"} ->
               "/incoming_requests/" \o ToStr(ids[1])

----------------------------------------------------------------------------
(* The synchronous part of each operation: validation and the in-place     *)
(* normalisation of the caller's parameter object.  The result holds the   *)
(* object as the operation leaves it and the error thrown, if any.         *)

Done(o) == [obj |-> o, err |-> NoError]
Throw(o, e) == [obj |-> o, err |-> e]

\* typeof v
TypeOf(v) ==
    CASE v.t \in {"undefined", "string", "number", "boolean", "function"} -> v.t
      [] OTHER -> "object"

\* o[k] = String(o[k])
SetFlagAsText(o, k) == Set(o, k, Str(PrimToString(Get(o, k))))

\* o[k] = o[k] ? "1" : "0"
SetFlag(o, k) == Set(o, k, Str(IF Truthy(Get(o, k)) THEN "1" ELSE "0"))

\* if (Array.isArray(o[k])) o[k] = o[k].join(",")
JoinIfArray(o, k) == IF IsArr(Get(o, k)) THEN Set(o, k, Str(JoinComma(Get(o, k)))) ELSE o

\* the three member lists of postRooms and putRoomMembers
JoinMemberIds(o) ==
    JoinIfArray(JoinIfArray(JoinIfArray(o, "members_admin_ids"), "members_member_ids"),
                "members_readonly_ids")

\* whether v?.trim().toLowerCase() throws: v is neither nullish nor a string
TrimLowerThrows(v) == v.t \notin {"undefined", "null", "string"}
\* v?.trim()
TrimOnly(v) == IF IsStr(v) THEN Str(Trim(v.s)) ELSE Undefined

\* v?.trim().toLowerCase()
TrimLower(v) == IF IsStr(v) THEN Str(ToLowerCase(Trim(v.s))) ELSE Undefined

postRooms(formData) ==
    IF ~Truthy(Get(formData, "name"))
    THEN Throw(formData, MissingParameterError("formData.name"))
    ELSE IF ~Truthy(Get(formData, "members_admin_ids"))
    THEN Throw(formData, MissingParameterError("formData.members_admin_ids"))
    ELSE Done(JoinMemberIds(formData))

deleteRooms(formData) ==
    IF ~Truthy(Get(formData, "action_type"))
    THEN Throw(formData, MissingParameterError("formData.action_type"))
    ELSE Done(formData)

putRoomMembers(formData) ==
    IF ~Truthy(Get(formData, "members_admin_ids"))
    THEN Throw(formData, MissingParameterError("formData.members_admin_ids"))
    ELSE Done(JoinMemberIds(formData))

getRoomMessages(queryParams) == Done(SetFlag(queryParams, "force"))

postRoomMessage(formData) ==
    IF ~Truthy(Get(formData, "body"))
    THEN Throw(formData, MissingParameterError("formData.body"))
    ELSE Done(SetFlag(formData, "self_unread"))

putRoomMessagesUnread(formData) ==
    IF ~Truthy(Get(formData, "message_id"))
    THEN Throw(formData, MissingParameterError("formData.message_id"))
    ELSE Done(formData)

putRoomMessage(formData) ==
    IF ~Truthy(Get(formData, "body"))
    THEN Throw(formData, MissingParameterError("formData.body"))
    ELSE Done(formData)

\* a getRoomTasks that tests the status as it was passed
getRoomTasksAsPassed(queryParams) ==
    IF ~isValidTaskStatus(Get(queryParams, "status"))
    THEN Done(Delete(queryParams, "status"))
    ELSE Done(queryParams)

getRoomTasks(queryParams) ==
    IF TrimLowerThrows(Get(queryParams, "status"))
    THEN Throw(queryParams, TypeError("queryParams.status?.trim is not a function"))
    ELSE LET q == Set(queryParams, "status", TrimLower(Get(queryParams, "status")))
         IN IF ~isValidTaskStatus(Get(q, "status")) THEN Done(Delete(q, "status"))
            ELSE Done(q)

\* postRoomTasks, lines 921-936: the limit_type inferred from the limit
InferLimitType(limit, zone) ==
    IF ~Truthy(limit) THEN "none"
    ELSE IF GetSeconds(limit, zone) = Num(0) /\ GetMinutes(limit, zone) = Num(0)
            /\ GetHours(limit, zone) = Num(0)
    THEN "date"
    ELSE "time"

\* postRoomTasks, lines 905-919: the limit as a Date
LimitAsDate(formData) ==
    LET limit == Get(formData, "limit")
    IN IF Truthy(limit) /\ ~IsDate(limit) /\ (IsStr(limit) \/ IsNum(limit))
       THEN Set(formData, "limit", NewDate(limit))
       ELSE formData

\* postRoomTasks, lines 951-956: the limit as epoch seconds
LimitAsSeconds(formData) ==
    IF Truthy(Get(formData, "limit"))
    THEN Set(formData, "limit", Str(EpochSecondsString(Get(formData, "limit"))))
    ELSE formData

postRoomTasks(formData, zone) ==
    IF ~Truthy(Get(formData, "body"))
    THEN Throw(formData, MissingParameterError("formData.body"))
    ELSE IF ~Truthy(Get(formData, "to_ids"))
    THEN Throw(formData, MissingParameterError("formData.to_ids"))
    ELSE LET given == Get(formData, "limit")
             f1 == LimitAsDate(formData)
             limit == Get(f1, "limit")
             limitType == Get(f1, "limit_type")
             f2 == IF ~Truthy(limitType)
                   THEN Set(f1, "limit_type", Str(InferLimitType(limit, zone)))
                   ELSE Set(f1, "limit_type", TrimLower(limitType))
         IN IF Truthy(given) /\ ~IsDate(given) /\ ~IsDate(limit)
            THEN Throw(f1, InvalidParameterError("formData.limit", TypeOf(limit),
                                                 "a Date object"))
            ELSE IF Truthy(limitType) /\ ~IsStr(limitType)
            THEN Throw(f1, TypeError("formData.limit_type.trim is not a function"))
            ELSE IF ~isValidLimitType(Get(f2, "limit_type"))
            THEN Throw(f2, InvalidParameterError("formData.limit_type",
                                                 ToStr(Get(f2, "limit_type")),
                                                 "none or date or time"))
            ELSE Done(LimitAsSeconds(JoinIfArray(f2, "to_ids")))

putRoomTaskStatus(formData) ==
    IF TrimLowerThrows(Get(formData, "body"))
    THEN Throw(formData, TypeError("formData.body?.trim is not a function"))
    ELSE LET f == Set(formData, "body", TrimLower(Get(formData, "body")))
         IN IF ~Truthy(Get(f, "body"))
            THEN Throw(f, MissingParameterError("formData.body"))
            ELSE IF ~isValidTaskStatus(Get(f, "body"))
            THEN Throw(f, InvalidParameterError("formData.body", ToStr(Get(f, "body")),
                                                "done or open"))
            ELSE Done(f)

postRoomFiles(formData) ==
    IF ~Truthy(Get(formData, "file"))
    THEN Throw(formData, MissingParameterError("formData.file"))
    ELSE Done(formData)

getRoomFile(queryParams) ==
    IF Get(queryParams, "create_download_url") # Undefined
    THEN Done(SetFlag(queryParams, "create_download_url"))
    ELSE Done(queryParams)

postRoomLink(formData) == Done(SetFlag(formData, "need_acceptance"))

putRoomLink(formData) == Done(SetFlag(formData, "need_acceptance"))

\* the operations that read a property of their parameter object, or its
\* entries, and so throw a TypeError when it is undefined
ReadsParamObject(op) == ParamObject(op) # "none" /\ op \notin {"getMyTasks", "getRoomFiles"}

\* the statements of an operation between the checks of its path parameters
\* and the call of the transport
Prepare(op, o, zone) ==
    CASE op = "postRooms" -> postRooms(o)
      [] op = "deleteRooms" -> deleteRooms(o)
      [] op = "putRoomMembers" -> putRoomMembers(o)
      [] op = "getRoomMessages" -> getRoomMessages(o)
      [] op = "postRoomMessage" -> postRoomMessage(o)
      [] op = "putRoomMessagesUnread" -> putRoomMessagesUnread(o)
      [] op = "putRoomMessage" -> putRoomMessage(o)
      [] op = "getRoomTasks" -> getRoomTasks(o)
      [] op = "postRoomTasks" -> postRoomTasks(o, zone)
      [] op = "putRoomTaskStatus" -> putRoomTaskStatus(o)
      [] op = "postRoomFiles" -> postRoomFiles(o)
      [] op = "getRoomFile" -> getRoomFile(o)
      [] op = "postRoomLink" -> postRoomLink(o)
      [] op = "putRoomLink" -> putRoomLink(o)
      [] OTHER -> Done(o)

----------------------------------------------------------------------------
(* The request an operation hands to the transport. *)

NoBody == [kind |-> "none"]

\* new Blob([bytes])
BlobFrom(bytes) == [t |-> "blob", parts |-> <<bytes>>]

\* the FormData of postRoomFiles, lines 1136-1141
MultipartBody(formData) ==
    LET file == Get(formData, "file")
        blob == IF file.t = "uint8array" THEN BlobFrom(file) ELSE file
    IN [kind |-> "multipart",
        parts |-> << <<"message", Str(ToStr(Get(formData, "message")))>>, <<"file", blob>> >>]

Body(op, o) ==
    IF ParamObject(op) # "formData" THEN NoBody
    ELSE IF op = "postRoomFiles" THEN MultipartBody(o)
    ELSE [kind |-> "urlencoded", pairs |-> FormParams(o)]

\* a request whose headers leave the token out
RequestWithoutToken(op, ids, o, given, cl) ==
    [url |-> apiV2Endpoint \o Path(op, ids)
                \o (IF ParamObject(op) = "queryParams"
                    THEN queryStringFromParamsObject(o, given) ELSE ""),
     method |-> Method(op),
     headers |-> SelectSeq(IF UsesFormDataHeaders(op) THEN cl.FormDataHeaders
                           ELSE cl.DefaultHeaders,
                           LAMBDA h : h[1] # "x-chatworktoken"),
     body |-> Body(op, o)]

Request(op, ids, o, given, cl) ==
    [url |-> apiV2Endpoint \o Path(op, ids)
                \o (IF ParamObject(op) = "queryParams"
                    THEN queryStringFromParamsObject(o, given) ELSE ""),
     method |-> Method(op),
     headers |-> IF UsesFormDataHeaders(op) THEN cl.FormDataHeaders ELSE cl.DefaultHeaders,
     body |-> Body(op, o)]

\* the first path parameter that is falsy, or 0
FirstFalsyId(ids) ==
    IF \E i \in 1..Len(ids) : ~Truthy(ids[i])
    THEN CHOOSE i \in 1..Len(ids) : ~Truthy(ids[i]) /\ \A j \in 1..(i - 1) : Truthy(ids[j])
    ELSE 0

\* An operation from its call to its first await: the checks of the path
\* parameters, Prepare, and the call of this.#fetch with the request.  The
\* result holds the parameter object as left, the error thrown, if any, and
\* the requests handed to the transport.
Run(op, ids, o, given, cl, zone) ==
    IF FirstFalsyId(ids) # 0
    THEN [obj |-> o, err |-> MissingParameterError(PathParams(op)[FirstFalsyId(ids)]),
          reqs |-> << >>]
    ELSE IF ReadsParamObject(op) /\ ~given
    THEN [obj |-> o, err |-> TypeError("cannot read properties of undefined"),
          reqs |-> << >>]
    ELSE LET p == Prepare(op, o, zone)
         IN IF p.err # NoError THEN [obj |-> p.obj, err |-> p.err, reqs |-> << >>]
            ELSE IF ~IsFunction(cl.fetch)
            THEN [obj |-> p.obj, err |-> TypeError("this.#fetch is not a function"),
                  reqs |-> << >>]
            ELSE [obj |-> p.obj, err |-> NoError,
                  reqs |-> <<Request(op, ids, p.obj, given, cl)>>]

----------------------------------------------------------------------------
(* The response of the transport and the rest of an operation. *)

NoResponse == [status |-> 0]
\* Response.ok
Ok(res) == res.status >= 200 /\ res.status <= 299

NoValue == [t |-> "none"]
Absent == [t |-> "absent"]
NotJson == [t |-> "notjson"]

IdleCall ==
    [pc |-> "idle", op |-> "none", ids |-> << >>, given |-> FALSE, arg |-> EmptyObject,
     reqs |-> << >>, res |-> NoResponse, bodyRead |-> FALSE, result |-> NoValue,
     err |-> NoError]

\* an operation that reads the body with res.json() before it looks at res.ok
AfterFetchReadsFirst(call, res) ==
    IF ~Ok(res)
    THEN [call EXCEPT !.pc = "rejected", !.res = res, !.bodyRead = TRUE,
                      !.err = ChatworkError(res.status, ResourceType(call.op))]
    ELSE IF ReturnsJson(call.op)
    THEN [call EXCEPT !.pc = "json", !.res = res, !.bodyRead = TRUE]
    ELSE [call EXCEPT !.pc = "resolved", !.res = res, !.result = Undefined]

\* the operation after `await this.#fetch(...)` resolves with res: it throws
\* the ChatworkError of a response that is not ok, else reads the body with
\* res.json(), or returns at once when it returns nothing
AfterFetch(call, res) ==
    IF ~Ok(res)
    THEN [call EXCEPT !.pc = "rejected", !.res = res,
                      !.err = ChatworkError(res.status, ResourceType(call.op))]
    ELSE IF ReturnsJson(call.op)
    THEN [call EXCEPT !.pc = "json", !.res = res, !.bodyRead = TRUE]
    ELSE [call EXCEPT !.pc = "resolved", !.res = res, !.result = Undefined]

\* the operation after `await this.#fetch(...)` rejects
AfterFetchRejects(call) == [call EXCEPT !.pc = "rejected", !.err = NetworkError]

\* the operation after `await res.json()` settles
AfterJson(call) ==
    IF call.res.body = NotJson
    THEN [call EXCEPT !.pc = "rejected", !.err = JsonSyntaxError]
    ELSE [call EXCEPT !.pc = "resolved", !.result = call.res.body]

----------------------------------------------------------------------------
(* The inputs the model draws: what a caller passes. *)

\* the token sources
OptionTokens == {Absent, Undefined, Str(""), Str("tokA")}
EnvValues == {Undefined, Str(""), Str("tokE")}
DotenvValues == {Undefined, Str(""), Str("tokF")}
FetchImpls == {Absent, FunctionOf("custom")}
TimeZones == {0, 540}

\* an object with key k absent (v is Absent) or set to the value v
With(o, k, v) == IF v = Absent THEN Delete(o, k) ELSE Set(o, k, v)

\* the argument of create: omitted, or an options object
CreateArguments ==
    {[given |-> FALSE, options |-> EmptyObject]}
    \cup {[given |-> TRUE,
           options |-> With(With(EmptyObject, "token", t), "fetchImpl", f)] :
             t \in OptionTokens, f \in FetchImpls}

\* the forms of a required value that is left out
FalsyForms == {Absent, Undefined, Null, Str(""), Num(0)}

\* a valid value of the i-th path parameter
ValidId(i) == Num(6 + i)
ValidIds(op) == [i \in 1..Len(PathParams(op)) |-> ValidId(i)]

\* the path parameters passed: all valid, one left out, all left out
IdInputs(op) ==
    {ValidIds(op)}
    \cup {[ValidIds(op) EXCEPT ![i] = f] : i \in 1..Len(PathParams(op)),
                                            f \in FalsyForms \ {Absent}}
    \cup {[i \in 1..Len(PathParams(op)) |-> Undefined]}

\* the id arrays of at most MaxIds elements
IdElements == {Num(1), Str("2")}
IdArrays == UNION {[1..n -> IdElements] : n \in 0..MaxIds}
\* the values of a list-valued field: an array, or a string already joined
ListValues == {Arr(a) : a \in IdArrays} \cup {Str("1,2")}

\* the values of a binary flag
FlagValues == {Bool(TRUE), Bool(FALSE)}

LimitValues ==
    {Absent, Undefined, Num(0), DateOf(86400000), DateOf(97445000), InvalidDate,
     Num(86400), Num(9000), Str("1970-01-02"), Str("1970-01-02T03:04:05Z"),
     Str("tomorrow"), Bool(TRUE)}
LimitTypeValues == {Absent, Str(" DATE "), Str("time"), Str("none"), Str("bogus"), Str("  ")}
\* the values of a query parameter: defined ones, falsy ones, nullish ones
QueryValues == {Absent, Undefined, Null, Num(5), Num(0), Str(""), Bool(FALSE)}
StatusValues == {Absent, Str(" DONE "), Str("open"), Str("bogus"), Str("  ")}

\* a valid parameter object of each operation
BaseObject(op) ==
    CASE op = "getMyTasks" -> << <<"assigned_by_account_id", Num(5)>>, <<"status", Str("open")>> >>
      [] op = "postRooms" ->
            << <<"name", Str("n")>>, <<"members_admin_ids", Arr(<<Num(1), Str("2")>>)>>,
               <<"icon_preset", Str("group")>> >>
      [] op = "putRoom" ->
            << <<"name", Str("n")>>, <<"description", Str("d")>>,
               <<"icon_preset", Str("group")>> >>
      [] op = "deleteRooms" -> << <<"action_type", Str("leave")>> >>
      [] op = "putRoomMembers" ->
            << <<"members_admin_ids", Arr(<<Num(1), Str("2")>>)>>,
               <<"members_member_ids", Str("1,2")>>,
               <<"members_readonly_ids", Arr(<<Num(1)>>)>> >>
      [] op = "getRoomMessages" -> << <<"force", Bool(TRUE)>> >>
      [] op = "postRoomMessage" -> << <<"body", Str("hi")>>, <<"self_unread", Bool(TRUE)>> >>
      [] op \in {"putRoomMessagesRead", "putRoomMessagesUnread"} ->
            << <<"message_id", Str("55")>> >>
      [] op = "putRoomMessage" -> << <<"body", Str("hi")>> >>
      [] op = "getRoomTasks" -> << <<"account_id", Num(5)>>, <<"status", Str("open")>> >>
      [] op = "postRoomTasks" ->
            << <<"body", Str("do")>>, <<"to_ids", Arr(<<Num(1), Str("2")>>)>> >>
      [] op = "putRoomTaskStatus" -> << <<"body", Str("done")>> >>
      [] op = "getRoomFiles" -> << <<"account_id", Num(5)>> >>
      [] op = "postRoomFiles" ->
            << <<"file", BytesOf("f1")>>, <<"message", Str("see")>> >>
      [] op = "getRoomFile" -> << <<"create_download_url", Bool(TRUE)>> >>
      [] op \in {"postRoomLink", "putRoomLink"} ->
            << <<"code", Str("c")>>, <<"need_acceptance", Bool(TRUE)>>,
               <<"description", Str("d")>> >>
      [] OTHER -> EmptyObject

\* the fields of the parameter object that the operation's signature
\* declares required and that hold a string, a list or a file
RequiredFields(op) ==
    CASE op = "postRooms" -> <<"name", "members_admin_ids", "icon_preset">>
      [] op = "putRoom" -> <<"name", "description", "icon_preset">>
      [] op = "deleteRooms" -> <<"action_type">>
      [] op = "putRoomMembers" -> <<"members_admin_ids">>
      [] op = "postRoomMessage" -> <<"body">>
      [] op \in {"putRoomMessagesRead", "putRoomMessagesUnread"} -> <<"message_id">>
      [] op = "putRoomMessage" -> <<"body">>
      [] op = "postRoomTasks" -> <<"body", "to_ids">>
      [] op = "putRoomTaskStatus" -> <<"body">>
      [] op = "postRoomFiles" -> <<"file", "message">>
      [] OTHER -> << >>

\* the valid parameter objects of each operation
ValidObjects(op) ==
    LET base == BaseObject(op)
    IN CASE op = "getMyTasks" ->
               {With(With(base, "assigned_by_account_id", a), "status", v) :
                  a \in QueryValues, v \in StatusValues} \cup {EmptyObject}
         [] op = "getRoomTasks" ->
               {With(base, "status", v) : v \in StatusValues} \cup {EmptyObject}
         [] op = "postRooms" ->
               {With(With(With(base, "members_admin_ids", a), "members_member_ids", m),
                     "members_readonly_ids", r) :
                  a \in ListValues, m \in {Absent, Arr(<<Str("2"), Num(1)>>)},
                  r \in {Absent, Str("1,2")}}
         [] op = "putRoomMembers" ->
               {With(With(base, "members_admin_ids", a), "members_member_ids", m) :
                  a \in ListValues, m \in {Str("1,2"), Arr(<<Str("2"), Num(1)>>)}}
         [] op = "getRoomMessages" ->
               {With(base, "force", v) : v \in FlagValues \cup {Absent}}
         [] op = "postRoomMessage" ->
               {With(base, "self_unread", v) : v \in FlagValues \cup {Absent}}
         [] op = "postRoomTasks" ->
               {With(base, "to_ids", a) : a \in ListValues}
               \cup {With(With(base, "limit", l), "limit_type", lt) :
                       l \in LimitValues, lt \in LimitTypeValues}
         [] op = "putRoomTaskStatus" ->
               {With(base, "body", v) : v \in StatusValues \ {Absent}}
         [] op = "getRoomFiles" -> {base, EmptyObject}
         [] op = "postRoomFiles" -> {base, With(base, "file", BlobOf("b1"))}
         [] op = "getRoomFile" ->
               {With(base, "create_download_url", v) : v \in FlagValues \cup {Absent}}
         [] op \in {"postRoomLink", "putRoomLink"} ->
               {With(base, "need_acceptance", v) : v \in FlagValues \cup {Absent}}
         [] OTHER -> {base}

\* the parameter objects with one required field left out, or all of them
LackingObjects(op) ==
    LET req == RequiredFields(op)
    IN {With(BaseObject(op), req[i], f) : i \in 1..Len(req), f \in FalsyForms}
       \cup {SelectSeq(BaseObject(op), LAMBDA e : \A i \in 1..Len(req) : e[1] # req[i])}

\* what is passed for the parameter object: nothing (the operation has
\* none), an object, or undefined (the argument is omitted)
Argument(o) == [given |-> TRUE, obj |-> o]
Omitted == [given |-> FALSE, obj |-> EmptyObject]

\* the calls of an operation: <<path parameters, argument>>
Inputs(op) ==
    IF ParamObject(op) = "none" THEN {<<ids, Omitted>> : ids \in IdInputs(op)}
    ELSE {<<ids, Argument(BaseObject(op))>> : ids \in IdInputs(op)}
         \cup {<<ValidIds(op), Argument(o)>> : o \in ValidObjects(op) \cup LackingObjects(op)}
         \cup {<<ValidIds(op), Omitted>>}
         \cup {<<[i \in 1..Len(PathParams(op)) |-> Undefined], Argument(o)>> :
                 o \in LackingObjects(op)}

\* the responses of the transport
Statuses == {100, 200, 204, 302, 400, 401, 403, 404, 429, 500}
JsonBodies == {Str("json1")}
Responses == [status : Statuses, body : JsonBodies \cup {NotJson}]

----------------------------------------------------------------------------
(* The state machine. *)

\* the calls that may be in flight at once and the objects the caller keeps;
\* the specifications of single calls use the first of each
Slots == {"c1", "c2"}
Refs == {"o1", "o2"}
MainSlots == {"c1"}
MainRefs == {"o1"}
\* an object the caller keeps: the operation it was passed to, the object as
\* the operation left it, and the requests of the first call made with it
NoObject == [kind |-> "none", obj |-> EmptyObject, first |-> << >>]

InitWith(envs, files, zones) ==
    /\ env \in envs
    /\ dotenv \in files
    /\ tz \in zones
    /\ client = NoClient
    /\ created = "no"
    /\ createArg = [given |-> FALSE, options |-> EmptyObject]
    /\ consulted = {}
    /\ heap = [r \in Refs |-> NoObject]
    /\ calls = [c \in Slots |-> IdleCall]

\* ChatworkClient.create(a.options), or create() when a.given is false
Create(a) ==
    /\ created # "ok"
    /\ LET r == CreateClient(a.options, a.given, env, dotenv)
       IN /\ client' = r.client
          /\ created' = IF r.ok THEN "ok" ELSE "failed"
          /\ consulted' = r.read
    /\ createArg' = a
    /\ UNCHANGED <<env, dotenv, tz, heap, calls>>

\* the call in slot c after the synchronous part r of operation op
Started(c, op, ids, arg, ref, r) ==
    [IdleCall EXCEPT !.pc = IF r.err # NoError THEN "rejected" ELSE "awaiting",
                     !.op = op, !.ids = ids, !.given = arg.given, !.arg = arg.obj,
                     !.reqs = r.reqs, !.err = r.err]

\* the caller calls client.op(ids..., arg), arg being undefined (omitted) or
\* a new object kept at reference ref; the operation runs to its first await
Invoke(c, op, ids, arg, ref) ==
    /\ created = "ok"
    /\ calls[c].pc = "idle"
    /\ heap[ref] = NoObject
    /\ LET r == Run(op, ids, arg.obj, arg.given, client, tz)
       IN /\ calls' = [calls EXCEPT ![c] = Started(c, op, ids, arg, ref, r)]
          /\ heap' = [heap EXCEPT ![ref] = IF arg.given
                                           THEN [kind |-> op, obj |-> r.obj,
                                                 first |-> r.reqs]
                                           ELSE NoObject]
    /\ UNCHANGED <<env, dotenv, tz, client, created, createArg, consulted>>

\* the caller calls client.op again with the object it kept at ref
InvokeRetained(c, op, ref) ==
    /\ created = "ok"
    /\ calls[c].pc = "idle"
    /\ heap[ref].kind = op
    /\ LET arg == Argument(heap[ref].obj)
           r == Run(op, ValidIds(op), arg.obj, TRUE, client, tz)
       IN /\ calls' = [calls EXCEPT ![c] = Started(c, op, ValidIds(op), arg, ref, r)]
          /\ heap' = [heap EXCEPT ![ref] = [@ EXCEPT !.obj = r.obj]]
    /\ UNCHANGED <<env, dotenv, tz, client, created, createArg, consulted>>

\* the transport resolves the call's fetch with the response res
Respond(c, res) ==
    /\ calls[c].pc = "awaiting"
    /\ calls' = [calls EXCEPT ![c] = AfterFetch(calls[c], res)]
    /\ UNCHANGED <<env, dotenv, tz, client, created, createArg, consulted, heap>>

\* the transport rejects the call's fetch
FetchRejects(c) ==
    /\ calls[c].pc = "awaiting"
    /\ calls' = [calls EXCEPT ![c] = AfterFetchRejects(calls[c])]
    /\ UNCHANGED <<env, dotenv, tz, client, created, createArg, consulted, heap>>

\* res.json() settles
JsonSettles(c) ==
    /\ calls[c].pc = "json"
    /\ calls' = [calls EXCEPT ![c] = AfterJson(calls[c])]
    /\ UNCHANGED <<env, dotenv, tz, client, created, createArg, consulted, heap>>

\* the caller has taken the outcome of the settled call; the slot is free
Settle(c) ==
    /\ calls[c].pc \in {"resolved", "rejected"}
    /\ calls' = [calls EXCEPT ![c] = IdleCall]
    /\ UNCHANGED <<env, dotenv, tz, client, created, createArg, consulted, heap>>

\* the caller drops the object it kept at ref
Discard(ref) ==
    /\ heap[ref] # NoObject
    /\ \A c \in Slots : calls[c].pc = "idle"
    /\ heap' = [heap EXCEPT ![ref] = NoObject]
    /\ UNCHANGED <<env, dotenv, tz, client, created, createArg, consulted, calls>>

\* the arguments of create in the specification of the operations
MainCreateArguments ==
    {[given |-> FALSE, options |-> EmptyObject],
     [given |-> TRUE, options |-> << <<"token", Str("tokA")>> >>],
     [given |-> TRUE,
      options |-> << <<"token", Str("tokA")>>, <<"fetchImpl", FunctionOf("custom")>> >>]}

Init == InitWith({Str("tokE")}, {Undefined}, TimeZones)

Next ==
    \/ \E a \in MainCreateArguments : Create(a)
    \/ \E c \in MainSlots, op \in Ops, ref \in MainRefs : \E in \in Inputs(op) :
          Invoke(c, op, in[1], in[2], ref)
    \/ \E c \in MainSlots, op \in Ops, ref \in MainRefs : InvokeRetained(c, op, ref)
    \/ \E c \in MainSlots, res \in Responses : Respond(c, res)
    \/ \E c \in MainSlots : FetchRejects(c)
    \/ \E c \in MainSlots : JsonSettles(c)
    \/ \E c \in MainSlots : Settle(c)
    \/ \E ref \in MainRefs : Discard(ref)

Spec == Init /\ [][Next]_vars

\* construction under every state of the token sources, followed by the
\* operations of the README and of the test file
CreateOps == {"getMe", "postRoomMessage"}

InitCreate == InitWith(EnvValues, DotenvValues, {0})

NextCreate ==
    \/ \E a \in CreateArguments : Create(a)
    \/ \E c \in MainSlots, op \in CreateOps, ref \in MainRefs : \E in \in Inputs(op) :
          Invoke(c, op, in[1], in[2], ref)
    \/ \E c \in MainSlots, res \in Responses : Respond(c, res)
    \/ \E c \in MainSlots : FetchRejects(c)
    \/ \E c \in MainSlots : JsonSettles(c)
    \/ \E c \in MainSlots : Settle(c)
    \/ \E ref \in MainRefs : Discard(ref)

SpecCreate == InitCreate /\ [][NextCreate]_vars


\* two calls on one client at the same time, each with an argument object
\* of its own: the call of slot c keeps its object at RefOf(c)
RefOf(c) == IF c = "c1" THEN "o1" ELSE "o2"
ConcurrentOps == {"postRoomMessage", "getRoomTasks"}
ConcurrentInputs(op) ==
    {<<ValidIds(op), Argument(BaseObject(op))>>,
     <<ValidIds(op), Argument(With(BaseObject(op), "body", Str("")))>>,
     <<ValidIds(op), Argument(With(BaseObject(op), "status", Str(" DONE ")))>>,
     <<[i \in 1..Len(PathParams(op)) |-> Num(0)], Argument(BaseObject(op))>>}
ConcurrentResponses ==
    {[status |-> 200, body |-> Str("json1")], [status |-> 404, body |-> NotJson]}

InitConcurrent == InitWith({Str("tokE")}, {Undefined}, {0})

NextConcurrent ==
    \/ \E a \in MainCreateArguments : Create(a)
    \/ \E c \in Slots, op \in ConcurrentOps : \E in \in ConcurrentInputs(op) :
          Invoke(c, op, in[1], in[2], RefOf(c))
    \/ \E c \in Slots, op \in ConcurrentOps : InvokeRetained(c, op, RefOf(c))
    \/ \E c \in Slots, res \in ConcurrentResponses : Respond(c, res)
    \/ \E c \in Slots : FetchRejects(c)
    \/ \E c \in Slots : JsonSettles(c)
    \/ \E c \in Slots : Settle(c)
    \/ \E ref \in Refs : Discard(ref)

SpecConcurrent == InitConcurrent /\ [][NextConcurrent]_vars

----------------------------------------------------------------------------
(* The claims. *)

\* the call in slot c has been made (and its outcome not yet taken)
Made(c) == calls[c].pc # "idle"
\* the client has a transport it can call
HasTransport == client # NoClient /\ IsFunction(client.fetch)

\* the names, as the operation's errors give them, of the required path
\* parameters and fields that a call leaves out
LackingNames(k) ==
    {PathParams(k.op)[i] : i \in {j \in 1..Len(k.ids) : ~Truthy(k.ids[j])}}
    \cup (IF k.given
          THEN {"formData." \o RequiredFields(k.op)[i] :
                  i \in {j \in 1..Len(RequiredFields(k.op)) :
                           ~Truthy(Get(k.arg, RequiredFields(k.op)[j]))}}
          ELSE {})

\* C1: a call that leaves a required path parameter or a required field out
\* (absent, "", 0, null or undefined) fails with the MissingParameterError
\* that names the field, and hands nothing to the transport.  (Stated for a
\* client that has a transport.)
C1_MissingParameter ==
    \A c \in Slots :
        (Made(c) /\ HasTransport /\ LackingNames(calls[c]) # {}) =>
            /\ calls[c].reqs = << >>
            /\ calls[c].err \in {MissingParameterError(n) : n \in LackingNames(calls[c])}

\* the error name the classifier's table gives a status code
ExpectedErrorName(status) ==
    CASE status = 400 -> "IncorrectParametersError"
      [] status = 401 -> "UnauthorizedError"
      [] status = 403 -> "ForbiddenError"
      [] status = 404 -> "NotFoundError"
      [] status = 429 -> "RateLimitError"
      [] OTHER -> "UnknownChatworkError " \o ToString(status)

\* the resource label of the 404 message of an operation: the one its call
\* site passes, the generic label when it passes none
ExpectedLabel(op) ==
    CASE op \in {"putRoomMessagesRead", "putRoomMessagesUnread", "getRoomMessage",
                 "putRoomMessage", "deleteRoomMessage"} -> "message"
      [] op \in {"getRoomTask", "putRoomTaskStatus"} -> "task"
      [] op = "getRoomFile" -> "file"
      [] op \in {"putIncomingRequests", "deleteIncomingRequest"} -> "contact"
      [] OTHER -> "resource"

\* the call has received a response that is not ok
Refused(k) == k.res # NoResponse /\ ~(k.res.status \in 200..299)

\* C2: every status code of a response that is not ok is classified: 400,
\* 401, 403, 404 and 429 give their error kinds, any other code s gives
\* UnknownChatworkError s, and the 404 message is "<label> does not exist"
\* with the call site's label or the generic one.
C2_Classifier ==
    \A c \in Slots :
        Refused(calls[c]) =>
            /\ calls[c].pc = "rejected"
            /\ calls[c].err.cls = "ChatworkError"
            /\ calls[c].err.name = ExpectedErrorName(calls[c].res.status)
            /\ calls[c].res.status = 404 =>
                  calls[c].err.message = ExpectedLabel(calls[c].op) \o " does not exist"

\* a 404 at a call site that passes no label, and a status outside the table
C2_Witness ==
    \E c \in Slots :
        \/ /\ calls[c].res.status = 404 /\ calls[c].op = "getRoom"
           /\ calls[c].err.message = "resource does not exist"
        \/ calls[c].res.status = 302 /\ calls[c].err.name = "UnknownChatworkError 302"

\* a token source that holds a token
NonEmpty(v) == v.t = "string" /\ v.s # ""
\* options.token as the caller passed it to create
TokenArgument == IF createArg.given THEN Get(createArg.options, "token") ELSE Undefined

\* C3: create takes the first non-empty source of options.token, the
\* CW_API_TOKEN environment variable and the .env entry; it reads no source
\* after a non-empty one; a client holds the winning, non-empty token; with
\* no source create fails and no request has been handed to a transport.
C3_TokenFallback ==
    /\ created = "ok" =>
          /\ NonEmpty(client.token)
          /\ IF NonEmpty(TokenArgument)
             THEN client.token = TokenArgument /\ consulted = {}
             ELSE IF NonEmpty(env)
             THEN client.token = env /\ consulted = {"env"}
             ELSE client.token = dotenv /\ consulted = {"env", "file"}
    /\ created = "failed" =>
          /\ ~NonEmpty(TokenArgument) /\ ~NonEmpty(env) /\ ~NonEmpty(dotenv)
          /\ client = NoClient
          /\ \A c \in Slots : calls[c].reqs = << >> /\ ~Made(c)
    /\ (created # "failed" /\ ~NonEmpty(TokenArgument) /\ ~NonEmpty(env)
          /\ ~NonEmpty(dotenv)) => created = "no"

\* the .env entry wins after an empty option and an empty variable, and the
\* client's request carries it
C3_Witness ==
    /\ created = "ok" /\ client.token = Str("tokF") /\ consulted = {"env", "file"}
    /\ createArg.given /\ Get(createArg.options, "token") = Str("")
    /\ env = Str("")
    /\ \E c \in Slots : calls[c].pc = "awaiting"

\* C4: a constructed client has a transport, and a client created with a
\* token and no fetchImpl has the platform's built-in fetch.
C4_TransportDefined ==
    created = "ok" =>
        /\ client.fetch # Undefined
        /\ (createArg.given /\ ~Has(createArg.options, "fetchImpl")) =>
              client.fetch = BuiltinFetch

\* the call was stopped by its pre-flight code: a required value is missing,
\* a value is invalid, or the reading of the arguments itself threw
PreflightFailed(k) ==
    \/ k.err.cls \in {"MissingParameterError", "InvalidParameterError"}
    \/ k.err.cls = "TypeError" /\ k.err.message # "this.#fetch is not a function"

\* C5: a call invokes the transport at most once: never when its pre-flight
\* validation fails, exactly once when it passes, and not again after the
\* transport has resolved with any status or rejected.
C5_AtMostOneCall ==
    \A c \in Slots :
        Made(c) =>
            /\ Len(calls[c].reqs) <= 1
            /\ PreflightFailed(calls[c]) => calls[c].reqs = << >>
            /\ ~PreflightFailed(calls[c]) => Len(calls[c].reqs) = 1

\* the part of C6 about a response that is not ok: the call rejects with the
\* ChatworkError of the status and has not read the body
C6_Refused(k) ==
    Refused(k) =>
        /\ k.pc = "rejected"
        /\ k.err.cls = "ChatworkError"
        /\ k.err.name = ExpectedErrorName(k.res.status)
        /\ ~k.bodyRead

\* the call has received a response that is ok
Accepted(k) == k.res # NoResponse /\ k.res.status \in 200..299

\* C6 as claimed: a response that is not ok rejects with its ChatworkError
\* and the body unread; after an ok response no ChatworkError is raised and
\* the result of every operation is the decoded JSON body.
C6_Original ==
    \A c \in Slots :
        /\ C6_Refused(calls[c])
        /\ Accepted(calls[c]) => calls[c].err.cls # "ChatworkError"
        /\ (Accepted(calls[c]) /\ calls[c].pc = "resolved") =>
              calls[c].result = calls[c].res.body

\* C6 as amended: a response that is not ok rejects with its ChatworkError
\* and the body unread; after an ok response no ChatworkError is raised,
\* deleteRooms and deleteIncomingRequest resolve with undefined and leave the
\* body unread, and every other operation reads the body with json(), resolves
\* with the decoded body unchanged, and rejects with the error of json() when
\* the body is no JSON.
C6_ResponsePassThrough ==
    \A c \in Slots :
        /\ C6_Refused(calls[c])
        /\ Accepted(calls[c]) =>
              /\ calls[c].err.cls # "ChatworkError"
              /\ IF calls[c].op \in {"deleteRooms", "deleteIncomingRequest"}
                 THEN /\ calls[c].pc = "resolved"
                      /\ calls[c].result = Undefined
                      /\ ~calls[c].bodyRead
                 ELSE /\ calls[c].bodyRead
                      /\ calls[c].pc = "resolved" =>
                            calls[c].result = calls[c].res.body /\ calls[c].res.body # NotJson
                      /\ calls[c].pc = "rejected" =>
                            calls[c].err = JsonSyntaxError /\ calls[c].res.body = NotJson

\* a call resolved with the decoded body of a 200 response
C6_Witness ==
    \E c \in Slots :
        /\ calls[c].pc = "resolved" /\ calls[c].res.status = 200
        /\ calls[c].op = "getRoom" /\ calls[c].result = Str("json1")

\* the call postRoomMessage(7, {body: "hi", self_unread: true})
IsHiMessage(k) ==
    /\ k.op = "postRoomMessage" /\ k.given /\ k.ids = <<Num(7)>>
    /\ k.arg = << <<"body", Str("hi")>>, <<"self_unread", Bool(TRUE)>> >>

\* the one request of the call: the POST of body=hi&self_unread=1 to the
\* room's messages, with the form headers
HiMessageRequest(k) ==
    /\ Len(k.reqs) = 1
    /\ k.reqs[1].method = "post"
    /\ k.reqs[1].url = "https://api.chatwork.com/v2/rooms/7/messages"
    /\ k.reqs[1].headers = << <<"accept", "application/json">>,
                              <<"x-chatworktoken", client.token.s>>,
                              <<"content-type", "application/x-www-form-urlencoded">> >>
    /\ k.reqs[1].body.kind = "urlencoded"
    /\ SerializeForm(k.reqs[1].body.pairs) = "body=hi&self_unread=1"

FlagField(op) ==
    CASE op = "postRoomMessage" -> "self_unread"
      [] op \in {"postRoomLink", "putRoomLink"} -> "need_acceptance"
      [] op = "getRoomMessages" -> "force"
      [] op = "getRoomFile" -> "create_download_url"
FlagOps == {"postRoomMessage", "postRoomLink", "putRoomLink", "getRoomMessages", "getRoomFile"}

\* the values a request sends for field f of a form body
SentValues(req, f) ==
    {req.body.pairs[i][2] : i \in {j \in 1..Len(req.body.pairs) : req.body.pairs[j][1] = f}}

\* the request sends text as the value of the operation's flag, and nothing
\* else for it
SendsFlag(k, text) ==
    CASE k.op = "getRoomMessages" ->
            k.reqs[1].url = "https://api.chatwork.com/v2/rooms/7/messages?force=" \o text
      [] k.op = "getRoomFile" ->
            k.reqs[1].url = "https://api.chatwork.com/v2/rooms/7/files/8?create_download_url="
                               \o text
      [] OTHER -> SentValues(k.reqs[1], FlagField(k.op)) = {text}

\* C8: a flag passed as a boolean is sent as "1" for true and as "0" for
\* false, and as nothing else.
C8_FlagEncoding ==
    \A c \in Slots :
        (/\ Made(c) /\ calls[c].op \in FlagOps /\ calls[c].given
         /\ Get(calls[c].arg, FlagField(calls[c].op)).t = "boolean"
         /\ calls[c].reqs # << >>) =>
            SendsFlag(calls[c], IF Get(calls[c].arg, FlagField(calls[c].op)).b
                                THEN "1" ELSE "0")

\* getRoomFile with create_download_url: false has sent "0"
C8_Witness ==
    \E c \in Slots :
        /\ calls[c].op = "getRoomFile" /\ calls[c].given
        /\ Get(calls[c].arg, "create_download_url") = Bool(FALSE)
        /\ calls[c].reqs # << >>
        /\ calls[c].reqs[1].url
              = "https://api.chatwork.com/v2/rooms/7/files/8?create_download_url=0"

\* the list-valued fields of an operation
ListFields(op) ==
    CASE op \in {"postRooms", "putRoomMembers"} ->
            {"members_admin_ids", "members_member_ids", "members_readonly_ids"}
      [] op = "postRoomTasks" -> {"to_ids"}
      [] OTHER -> {}

\* the text of an id
IdText(e) == IF e.t = "number" THEN ToString(e.n) ELSE e.s

RECURSIVE CommaJoined(_)
\* the ids of an array in their order, a comma between two neighbours
CommaJoined(a) ==
    IF Len(a) = 0 THEN ""
    ELSE IF Len(a) = 1 THEN IdText(a[1])
    ELSE CommaJoined(SubSeq(a, 1, Len(a) - 1)) \o "," \o IdText(a[Len(a)])

\* C9: a list-valued field passed as an array is sent as its elements joined
\* by commas in their order, one passed as a string is sent unchanged, and
\* encoding the value sent again gives the value sent.
C9_ListEncoding ==
    \A c \in Slots : \A f \in ListFields(calls[c].op) :
        (/\ Made(c) /\ calls[c].given /\ calls[c].reqs # << >>
         /\ Get(calls[c].arg, f).t \in {"array", "string"}) =>
            LET v == Get(calls[c].arg, f)
                sent == IF v.t = "array" THEN CommaJoined(v.a) ELSE v.s
            IN /\ SentValues(calls[c].reqs[1], f) = {sent}
               /\ entryValuesAsStrings(<<f, Str(sent)>>) = <<f, sent>>

\* postRooms has sent the array ["2", 1] of members_member_ids as "2,1"
C9_Witness ==
    \E c \in Slots :
        /\ calls[c].op = "postRooms" /\ calls[c].given /\ calls[c].reqs # << >>
        /\ Get(calls[c].arg, "members_member_ids") = Arr(<<Str("2"), Num(1)>>)
        /\ SentValues(calls[c].reqs[1], "members_member_ids") = {"2,1"}

\* the epoch seconds of the instant a date string of the model denotes
SecondsOfDateString(s) ==
    CASE s = "1970-01-02" -> 86400
      [] s = "1970-01-02T03:04:05Z" -> 97445
      [] s = "1970-01-01T00:00:09Z" -> 9

\* C10: postRoomTasks sends the limit as the decimal string of the floor of
\* its epoch seconds: floor(d.getTime() / 1000) for a Date d, floor(n) for a
\* number n of epoch seconds, the seconds of its instant for a date string.
C10_LimitSeconds ==
    \A c \in Slots :
        (/\ Made(c) /\ calls[c].op = "postRoomTasks" /\ calls[c].given
         /\ calls[c].reqs # << >>) =>
            LET l == Get(calls[c].arg, "limit")
                sent == SentValues(calls[c].reqs[1], "limit")
            IN /\ IsValidDate(l) => sent = {ToString(l.ms \div 1000)}
               /\ (IsNum(l) /\ ~IsNaN(l) /\ l.n # 0) => sent = {ToString(l.n)}
               /\ (IsStr(l) /\ IsValidDate(DateParse(l.s))) =>
                     sent = {ToString(SecondsOfDateString(l.s))}

\* the instant, in milliseconds, that a limit of postRoomTasks denotes: a
\* Date its time value, a number its epoch seconds, a date string its instant
DenotedMs(l) ==
    IF IsDate(l) THEN l.ms
    ELSE IF IsNum(l) THEN l.n * 1000
    ELSE SecondsOfDateString(l.s) * 1000

\* the limit denotes an instant
DenotesInstant(l) ==
    \/ IsValidDate(l)
    \/ IsNum(l) /\ ~IsNaN(l) /\ l.n # 0
    \/ IsStr(l) /\ IsValidDate(DateParse(l.s))

\* the hours, minutes and seconds of the instant are all 0 on the clock of
\* the time zone
AtMidnight(ms, zone) == ((ms + zone * 60000) % 86400000) \div 1000 = 0

\* C11: postRoomTasks sends, when no limit_type is supplied, "none" for no
\* limit, "date" for a limit whose hours, minutes and seconds are all 0 and
\* "time" for any other limit; a limit_type that is supplied is sent trimmed
\* and lower-cased, whatever the limit.
C11_LimitType ==
    \A c \in Slots :
        (/\ Made(c) /\ calls[c].op = "postRoomTasks" /\ calls[c].given
         /\ calls[c].reqs # << >>) =>
            LET l == Get(calls[c].arg, "limit")
                lt == Get(calls[c].arg, "limit_type")
                sent == SentValues(calls[c].reqs[1], "limit_type")
            IN /\ (IsStr(lt) /\ lt.s # "") => sent = {ToLowerCase(Trim(lt.s))}
               /\ (lt = Undefined /\ l = Undefined) => sent = {"none"}
               /\ (lt = Undefined /\ DenotesInstant(l)) =>
                     sent = {IF AtMidnight(DenotedMs(l), tz) THEN "date" ELSE "time"}

\* the call was made with an object for its parameter and valid path
\* parameters
WellAddressed(k) == k.given /\ \A i \in 1..Len(k.ids) : Truthy(k.ids[i])

\* the status filter of a query: the status trimmed and lower-cased when
\* that is "open" or "done", else none
StatusFilter(st) ==
    IF IsStr(st) /\ ToLowerCase(Trim(st.s)) \in {"open", "done"}
    THEN <<"status=" \o ToLowerCase(Trim(st.s))>>
    ELSE << >>

\* the query string of the pairs
QueryOf(pairs) == IF pairs = << >> THEN "" ELSE "?" \o JoinStrings(pairs, "&")

\* C12: getRoomTasks, called with a status that is a string or with none,
\* raises no error for the status and issues its request (on a client that
\* has a transport); the query string holds status=<the status trimmed and
\* lower-cased> when that is "open" or "done", no status key otherwise, and
\* the other query parameters as they were passed.
C12_RoomTasksStatus ==
    \A c \in Slots :
        (/\ Made(c) /\ calls[c].op = "getRoomTasks" /\ WellAddressed(calls[c])
         /\ Get(calls[c].arg, "status").t \in {"string", "undefined"}) =>
            /\ ~PreflightFailed(calls[c])
            /\ HasTransport => Len(calls[c].reqs) = 1
            /\ calls[c].reqs # << >> =>
                  calls[c].reqs[1].url =
                     "https://api.chatwork.com/v2/rooms/7/tasks"
                        \o QueryOf((IF Has(calls[c].arg, "account_id")
                                    THEN <<"account_id=5">> ELSE << >>)
                                   \o StatusFilter(Get(calls[c].arg, "status")))

\* getRoomTasks has sent the status " DONE " as status=done
C12_Witness ==
    \E c \in Slots :
        /\ calls[c].op = "getRoomTasks" /\ calls[c].reqs # << >>
        /\ Get(calls[c].arg, "status") = Str(" DONE ")
        /\ calls[c].reqs[1].url
              = "https://api.chatwork.com/v2/rooms/7/tasks?account_id=5&status=done"

\* C13: getMyTasks, called with a status that is a string or with none,
\* raises no error for the status; the query string of its request holds
\* status=<the status trimmed and lower-cased> when that is "open" or "done"
\* and no status key otherwise.
C13_MyTasksStatus ==
    \A c \in Slots :
        (/\ Made(c) /\ calls[c].op = "getMyTasks" /\ calls[c].given
         /\ Get(calls[c].arg, "assigned_by_account_id") \in {Num(5), Undefined}
         /\ Get(calls[c].arg, "status").t \in {"string", "undefined"}) =>
            /\ ~PreflightFailed(calls[c])
            /\ calls[c].reqs # << >> =>
                  calls[c].reqs[1].url =
                     "https://api.chatwork.com/v2/my/tasks"
                        \o QueryOf((IF Get(calls[c].arg, "assigned_by_account_id") = Num(5)
                                    THEN <<"assigned_by_account_id=5">> ELSE << >>)
                                   \o StatusFilter(Get(calls[c].arg, "status")))

\* the operations with an enumerated-string field, the field, its valid set
\* and the text of the set in the error
EnumOps == {"putRoomTaskStatus", "postRoomTasks"}
EnumField(op) == IF op = "putRoomTaskStatus" THEN "body" ELSE "limit_type"
EnumSet(op) == IF op = "putRoomTaskStatus" THEN {"open", "done"} ELSE {"none", "date", "time"}
EnumSetText(op) == IF op = "putRoomTaskStatus" THEN "done or open" ELSE "none or date or time"

\* the call passes the checks that come before the enumerated field: in
\* postRoomTasks those of body, to_ids and limit
PassesEarlierChecks(k) ==
    k.op = "postRoomTasks" =>
        /\ Truthy(Get(k.arg, "body")) /\ Truthy(Get(k.arg, "to_ids"))
        /\ LET l == Get(k.arg, "limit")
           IN ~Truthy(l) \/ IsDate(l) \/ IsStr(l) \/ IsNum(l)

\* the call is one that passes a non-empty string for its enumerated field
PassesEnumString(k) ==
    /\ k.op \in EnumOps /\ WellAddressed(k) /\ PassesEarlierChecks(k)
    /\ IsStr(Get(k.arg, EnumField(k.op))) /\ Get(k.arg, EnumField(k.op)).s # ""

\* the call was accepted and what it has sent for the field is text
AcceptedAs(k, text) ==
    /\ ~PreflightFailed(k)
    /\ k.reqs # << >> => SentValues(k.reqs[1], EnumField(k.op)) = {text}

\* the call was rejected, without a request, by the InvalidParameterError
\* that names the field, the value and the valid set
RejectedAsInvalid(k, text) ==
    /\ k.reqs = << >>
    /\ k.err.cls = "InvalidParameterError"
    /\ k.err.message = "formData." \o EnumField(k.op) \o " is " \o text
                          \o " but should be " \o EnumSetText(k.op) \o "."

\* C14 as claimed: a non-empty value of an enumerated-string field is
\* accepted and sent trimmed and lower-cased when that form is in the valid
\* set, and rejected by the InvalidParameterError, without a request, when it
\* is not.
C14_Original ==
    \A c \in Slots :
        (Made(c) /\ PassesEnumString(calls[c])) =>
            LET n == ToLowerCase(Trim(Get(calls[c].arg, EnumField(calls[c].op)).s))
            IN IF n \in EnumSet(calls[c].op) THEN AcceptedAs(calls[c], n)
               ELSE RejectedAsInvalid(calls[c], n)

\* C14 as amended: a non-empty value of an enumerated-string field is
\* accepted and sent trimmed and lower-cased when that form is in the valid
\* set; when it is not, the call is rejected without a request, by the
\* InvalidParameterError naming field, trimmed and lower-cased value and
\* valid set, except that a body of putRoomTaskStatus made of white space
\* only is rejected by the MissingParameterError of formData.body.
C14_EnumValidation ==
    \A c \in Slots :
        (Made(c) /\ PassesEnumString(calls[c])) =>
            LET n == ToLowerCase(Trim(Get(calls[c].arg, EnumField(calls[c].op)).s))
            IN IF n \in EnumSet(calls[c].op) THEN AcceptedAs(calls[c], n)
               ELSE IF n = "" /\ calls[c].op = "putRoomTaskStatus"
               THEN /\ calls[c].reqs = << >>
                    /\ calls[c].err.cls = "MissingParameterError"
                    /\ calls[c].err.message = "formData.body is a required parameter."
               ELSE RejectedAsInvalid(calls[c], n)

\* putRoomTaskStatus has rejected a body of white space as missing
C14_Witness ==
    \E c \in Slots :
        /\ calls[c].op = "putRoomTaskStatus" /\ calls[c].pc = "rejected"
        /\ Get(calls[c].arg, "body") = Str("  ")
        /\ calls[c].err.cls = "MissingParameterError"

\* the text of a query value that is neither null nor undefined
QueryText(v) ==
    CASE v.t = "number" -> ToString(v.n)
      [] v.t = "boolean" -> IF v.b THEN "true" ELSE "false"
      [] v.t = "string" -> v.s

RECURSIVE QueryPairs(_)
\* the k=v pairs of a mapping, in the order of its keys, the keys of a null
\* or undefined value left out
QueryPairs(o) ==
    IF o = << >> THEN << >>
    ELSE (IF Head(o)[2] \in {Null, Undefined} THEN << >>
          ELSE <<Head(o)[1] \o "=" \o QueryText(Head(o)[2])>>)
         \o QueryPairs(Tail(o))

\* C15: queryStringFromParamsObject, as getMyTasks applies it to its
\* argument, gives the empty string for a mapping that is absent, empty or
\* holds only null and undefined values, and otherwise "?" and the k=v pairs
\* of the values that are neither null nor undefined, 0, false and the empty
\* string included, in key order with "&" between them.
C15_QueryString ==
    \A c \in Slots :
        (Made(c) /\ calls[c].op = "getMyTasks" /\ calls[c].reqs # << >>) =>
            /\ calls[c].reqs[1].url =
                  "https://api.chatwork.com/v2/my/tasks"
                     \o (IF calls[c].given THEN QueryOf(QueryPairs(calls[c].arg)) ELSE "")
            /\ queryStringFromParamsObject(calls[c].arg, calls[c].given)
                  = (IF calls[c].given THEN QueryOf(QueryPairs(calls[c].arg)) ELSE "")

\* a mapping with a key of value 0 has given "?" and the pair of the 0 first
C15_Witness ==
    \E c \in Slots :
        /\ calls[c].op = "getMyTasks" /\ calls[c].reqs # << >>
        /\ calls[c].arg = << <<"assigned_by_account_id", Num(0)>>, <<"status", Str("open")>> >>
        /\ calls[c].reqs[1].url
              = "https://api.chatwork.com/v2/my/tasks?assigned_by_account_id=0&status=open"

\* the operations whose queryParams the documentation calls optional, and
\* the url of each without a query string
OptionalQueryOps == {"getMyTasks", "getRoomTasks", "getRoomFiles", "getRoomFile"}
BareUrl(op) ==
    CASE op = "getMyTasks" -> "https://api.chatwork.com/v2/my/tasks"
      [] op = "getRoomTasks" -> "https://api.chatwork.com/v2/rooms/7/tasks"
      [] op = "getRoomFiles" -> "https://api.chatwork.com/v2/rooms/7/files"
      [] op = "getRoomFile" -> "https://api.chatwork.com/v2/rooms/7/files/8"

\* C16: an operation with optional queryParams, called with valid path
\* parameters and no queryParams, raises no error before the call of the
\* transport and (on a client that has a transport) issues exactly one GET
\* to its path with an empty query string.
C16_OptionalQuery ==
    \A c \in Slots :
        (/\ Made(c) /\ calls[c].op \in OptionalQueryOps /\ ~calls[c].given
         /\ \A i \in 1..Len(calls[c].ids) : Truthy(calls[c].ids[i])) =>
            /\ ~PreflightFailed(calls[c])
            /\ HasTransport =>
                  /\ Len(calls[c].reqs) = 1
                  /\ calls[c].reqs[1].method = "get"
                  /\ calls[c].reqs[1].url = BareUrl(calls[c].op)

\* the request names a header
HasHeader(req, name) == \E i \in 1..Len(req.headers) : req.headers[i][1] = name

\* C17: the request of postRoomFiles has a multipart body of two fields, the
\* message and the file (bytes wrapped into a Blob, a Blob as it is), and
\* its headers hold no content-type, so that the transport sets the
\* multipart content-type and its boundary.
C17_UploadHeaders ==
    \A c \in Slots :
        (Made(c) /\ calls[c].op = "postRoomFiles" /\ calls[c].reqs # << >>) =>
            LET req == calls[c].reqs[1]
                file == Get(calls[c].arg, "file")
            IN /\ req.body.kind = "multipart"
               /\ Len(req.body.parts) = 2
               /\ req.body.parts[1][1] = "message"
               /\ req.body.parts[2] =
                     <<"file", IF file.t = "uint8array"
                               THEN [t |-> "blob", parts |-> <<file>>] ELSE file>>
               /\ ~HasHeader(req, "content-type")

\* the token and the transport that create was given: the first non-empty
\* of options.token and the environment variable, and options.fetchImpl (the
\* built-in fetch when create is called without options)
TokenAtConstruction == IF NonEmpty(TokenArgument) THEN TokenArgument ELSE env
TransportAtConstruction ==
    IF createArg.given THEN Get(createArg.options, "fetchImpl") ELSE BuiltinFetch

\* the client holds what its construction fixed
ClientAsConstructed ==
    /\ client.token = TokenAtConstruction
    /\ client.fetch = TransportAtConstruction
    /\ client.DefaultHeaders = << <<"accept", "application/json">>,
                                  <<"x-chatworktoken", TokenAtConstruction.s>> >>
    /\ client.FormDataHeaders = << <<"accept", "application/json">>,
                                   <<"x-chatworktoken", TokenAtConstruction.s>>,
                                   <<"content-type", "application/x-www-form-urlencoded">> >>

\* the request of the call carries the token of the construction
CarriesToken(k) ==
    \A i \in 1..Len(k.reqs) :
        <<"x-chatworktoken", TokenAtConstruction.s>>
            \in {k.reqs[i].headers[j] : j \in 1..Len(k.reqs[i].headers)}

\* the request of the call is the one the operation builds from the call's
\* own arguments and the client
BuiltFromOwnArguments(k) ==
    k.reqs = Run(k.op, k.ids, k.arg, k.given, client, tz).reqs

\* C18: while calls on one client run one after another or two at a time,
\* each with an argument object of its own, and succeed, fail before the
\* request or fail remotely, the client keeps the token, the transport and
\* the two header sets of its construction; every request carries that token
\* as x-chatworktoken; and the request of a call is the one built from its
\* own arguments, whatever the other call does.
C18_ClientFixed ==
    /\ [](created = "ok" =>
             /\ ClientAsConstructed
             /\ \A c \in Slots :
                   Made(c) => CarriesToken(calls[c]) /\ BuiltFromOwnArguments(calls[c]))
    /\ [][created = "ok" => client' = client /\ createArg' = createArg]_vars
    /\ [][\A c \in Slots : (Made(c) /\ Made(c)') => calls[c].reqs' = calls[c].reqs]_vars

\* of two calls made at once, one has been refused with 404 while the other
\* still waits for its response
C18_Witness ==
    /\ calls["c1"].pc = "awaiting" /\ calls["c1"].op = "postRoomMessage"
    /\ calls["c2"].pc = "rejected" /\ calls["c2"].op = "getRoomTasks"
    /\ calls["c2"].res.status = 404
    /\ Len(calls["c1"].reqs) = 1 /\ Len(calls["c2"].reqs) = 1
    /\ heap["o1"] # NoObject /\ heap["o2"] # NoObject

\* the operations of C19, which write a flag, a list or a limit into the
\* caller's object
RewritingOps ==
    {"postRoomMessage", "getRoomMessages", "postRoomLink", "putRoomLink", "getRoomFile",
     "postRoomTasks"}

\* C19: a call of one of these operations with an object that an earlier
\* call of the same operation was made with, and had issued a request for,
\* issues the same request (url, query string and body) as that first call.
C19_SameRequestAgain ==
    \A c \in Slots :
        (/\ Made(c) /\ calls[c].given /\ calls[c].op \in RewritingOps
         /\ heap[RefOf(c)].kind = calls[c].op
         /\ heap[RefOf(c)].first # << >>) =>
            calls[c].reqs = heap[RefOf(c)].first

\* C20: a call rejected before its request by a MissingParameterError or an
\* InvalidParameterError leaves the caller's parameter object as it was
\* passed: the same keys in the same order with the same values.
C20_ObjectUnchanged ==
    \A c \in Slots :
        (/\ Made(c) /\ calls[c].given
         /\ calls[c].err.cls \in {"MissingParameterError", "InvalidParameterError"}) =>
            heap[RefOf(c)].obj = calls[c].arg

\* the text is a decimal integer: digits only, and at least one
IsDecimal(text) ==
    /\ Len(text) > 0
    /\ \A i \in 1..Len(text) :
          SubSeq(text, i, i) \in {"0", "1", "2", "3", "4", "5", "6", "7", "8", "9"}

\* a limit that cannot be made a valid date: a string that does not parse,
\* an invalid Date, or a value that is no Date, number or string
NoValidDate(l) ==
    \/ IsStr(l) /\ l.s # "" /\ ~IsValidDate(DateParse(l.s))
    \/ IsDate(l) /\ ~IsValidDate(l)
    \/ Truthy(l) /\ ~IsStr(l) /\ ~IsNum(l) /\ ~IsDate(l)

\* C21: a request of postRoomTasks has no limit field or one limit field
\* that is a decimal integer; a call whose limit cannot be made a valid date
\* (and whose body and to_ids are there) is rejected before the transport
\* by the InvalidParameterError of formData.limit.
C21_LimitWellFormed ==
    \A c \in Slots :
        (Made(c) /\ calls[c].op = "postRoomTasks" /\ WellAddressed(calls[c])) =>
            /\ calls[c].reqs # << >> =>
                  \A v \in SentValues(calls[c].reqs[1], "limit") : IsDecimal(v)
            /\ (/\ NoValidDate(Get(calls[c].arg, "limit"))
                /\ Truthy(Get(calls[c].arg, "body"))
                /\ Truthy(Get(calls[c].arg, "to_ids"))) =>
                  /\ calls[c].reqs = << >>
                  /\ calls[c].err.cls = "InvalidParameterError"

====
